---------------------------- MODULE Spec2Model ----------------------------
(***************************************************************************)
(* A model of the metadata resolver (RegistryAccess.getComponentsFromPath  *)
(* and its helpers), of the tree container helpers it calls, and of        *)
(* ComponentSet's two-level map.                                           *)
(*                                                                         *)
(* Strings are sequences of tokens, so that concatenation, splitting and   *)
(* prefix tests are computed and not assumed.  A file or directory name is *)
(* a record [base, suffix, meta] standing for the string                   *)
(*     base [ "." suffix ] [ "-meta.xml" ]                                 *)
(* and a path is a sequence of names.                                      *)
(***************************************************************************)
EXTENDS Naturals, Sequences, FiniteSets, TLC

VARIABLES
    files,       \* the file paths of the bound tree container
    reversed,    \* whether readDir lists children in reverse canonical order
    mixedOrder,  \* key order of the registry's mixedContent table
    denied,      \* the paths the bound ForceIgnore denies
    tree,        \* GithubFileContainer.tree: directory path -> its entries' paths
    call,        \* the last getComponentsFromPath call: its fsPath (or NoCall)
    outcome,     \* what that call did: status, components, error path, event log
    components,  \* ComponentSet.components: outer map, in insertion order
    added,       \* history: every component passed to ComponentSet.add so far
    apiVersion,  \* ComponentSet.apiVersion
    asked        \* the last operation on the set other than add: arguments, result

vars == <<files, reversed, mixedOrder, denied, tree, call, outcome, components, added,
          apiVersion, asked>>

-----------------------------------------------------------------------------
(* Bounds of the model *)

\* at most this many files in the tree
MaxFiles == 3
\* at most this many paths denied by the ignore rules
MaxDenied == 1
\* at most this many calls of ComponentSet.add
MaxAdds == 3
\* at most this many components returned by the resolver for a path
MaxResolved == 2
\* at most this many members in a filter
MaxFilter == 2
\* at most this many paths in the ignore set given to walk
MaxIgnored == 1

-----------------------------------------------------------------------------
(* Names and paths *)

Dir(n) == [base |-> <<n>>, suffix |-> "", meta |-> FALSE]
File(b, s) == [base |-> <<b>>, suffix |-> s, meta |-> FALSE]
MetaXml(b, s) == [base |-> <<b>>, suffix |-> s, meta |-> TRUE]

\* undefined, and a defined value, of an optional result
Undefined == <<>>
Some(x) == <<x>>

\* path.dirname
dirname(p) == SubSeq(p, 1, Len(p) - 1)

\* path.basename
basename(p) == p[Len(p)]

IsPrefix(s, t) == Len(s) <= Len(t) /\ SubSeq(t, 1, Len(s)) = s

\* utils parseMetadataXml: the name matches (.+)\.(.+)-meta\.xml
parseMetadataXml(p) ==
    IF Len(p) > 0 /\ basename(p).meta /\ basename(p).suffix # ""
    THEN Some([fullName |-> basename(p).base, suffix |-> basename(p).suffix, path |-> p])
    ELSE Undefined

\* utils/path extName: the text after the last dot of the file name
extName(p) ==
    IF Len(p) = 0 THEN ""
    ELSE IF basename(p).meta THEN "xml"
    ELSE basename(p).suffix

\* utils/path baseName: the file name up to its first dot
baseName(p) == basename(p).base

\* utils/path parentName: the name of the directory holding the path
parentName(p) == IF Len(p) >= 2 THEN Some(p[Len(p) - 1]) ELSE Undefined


-----------------------------------------------------------------------------
(* The registry: a small table in the shape of MetadataRegistry.  KeanuReeves
   and KathyBates are single-file types, SimonPegg is a mixed-content bundle
   type, TinaFey is a mixed-content type kept in folders, and TinaFeyFolder
   is the type of those folders.  ReginaKing is a decomposed type and X is
   the type of its children. *)

RegistryTypes ==
    [keanureeves   |-> [id |-> "keanureeves", name |-> <<"KeanuReeves">>,
                        directoryName |-> "keanus", suffix |-> "keanu", inFolder |-> FALSE],
     kathybates    |-> [id |-> "kathybates", name |-> <<"KathyBates">>,
                        directoryName |-> "kathys", suffix |-> "kathy", inFolder |-> FALSE],
     simonpegg     |-> [id |-> "simonpegg", name |-> <<"SimonPegg">>,
                        directoryName |-> "simons", suffix |-> "simon", inFolder |-> FALSE],
     tinafey       |-> [id |-> "tinafey", name |-> <<"TinaFey">>,
                        directoryName |-> "tinas", suffix |-> "tina", inFolder |-> TRUE],
     tinafeyfolder |-> [id |-> "tinafeyfolder", name |-> <<"TinaFeyFolder">>,
                        directoryName |-> "tinas", suffix |-> "tinafeyFolder", inFolder |-> FALSE],
     reginaking    |-> [id |-> "reginaking", name |-> <<"ReginaKing">>,
                        directoryName |-> "reginas", suffix |-> "regina", inFolder |-> FALSE],
     x             |-> [id |-> "x", name |-> <<"X">>,
                        directoryName |-> "xs", suffix |-> "x", inFolder |-> FALSE]]

TypeIds == DOMAIN RegistryTypes

\* data.suffixes: suffix -> type id
Suffixes ==
    [keanu |-> "keanureeves", kathy |-> "kathybates", simon |-> "simonpegg",
     tina |-> "tinafey", tinafeyFolder |-> "tinafeyfolder", regina |-> "reginaking",
     x |-> "reginaking"]

\* data.mixedContent: directory name -> type id
MixedContent == [simons |-> "simonpegg", tinas |-> "tinafey"]

\* the orders Object.keys(data.mixedContent) can have
MixedOrders == {<<"simons", "tinas">>, <<"tinas", "simons">>}

\* data.suffixes[s], "" standing for undefined (both are falsy)
SuffixType(s) == IF s \in DOMAIN Suffixes THEN Suffixes[s] ELSE ""

\* data.mixedContent[directoryName], "" standing for undefined
MixedType(d) == IF d \in DOMAIN MixedContent THEN MixedContent[d] ELSE ""

\* getTypeFromName; every id the model passes is registered
getTypeFromName(typeId) == RegistryTypes[typeId]

\* MetadataType.folderType: the folder type of a type kept in folders
FolderType == [tinafey |-> "tinafeyfolder"]

\* MetadataType.folderContentType: the type a folder type holds
FolderContentType == [tinafeyfolder |-> "tinafey"]

\* the parent type of a child type
ParentTypes == [x |-> "reginaking"]

\* String.toLowerCase, on the spellings of type names the model uses
toLowerCase ==
    [KeanuReeves |-> "keanureeves", KEANUREEVES |-> "keanureeves",
     keanureeves |-> "keanureeves", KathyBates |-> "kathybates",
     kathybates |-> "kathybates", SimonPegg |-> "simonpegg",
     simonpegg |-> "simonpegg", TinaFey |-> "tinafey", tinafey |-> "tinafey",
     TinaFeyFolder |-> "tinafeyfolder", tinafeyfolder |-> "tinafeyfolder",
     ReginaKing |-> "reginaking", reginaking |-> "reginaking",
     X |-> "x", x |-> "x"]
       @@ (" KeanuReeves " :> " keanureeves ")

\* String.trim, on the same spellings
trim(s) == IF s = " keanureeves " THEN "keanureeves" ELSE s

\* RegistryAccess.getTypeByName: the type of a name, whatever its case; the
\* model passes registered names only, so the missing-type error is not raised
getTypeByName(name) == RegistryTypes[trim(toLowerCase[name])]

\* RegistryAccess.getParentType: "" standing for undefined
getParentType(typeId) == IF typeId \in DOMAIN ParentTypes THEN ParentTypes[typeId] ELSE ""

-----------------------------------------------------------------------------
(* The tree container *)

Root == Dir("r")

\* every file the tree may hold, in canonical listing order
Candidates ==
    << <<Root, Dir("keanus"), MetaXml("a", "keanu")>>,
       <<Root, Dir("keanus"), File("a", "keanu")>>,
       <<Root, Dir("keanus"), MetaXml("b", "kathy")>>,
       <<Root, Dir("keanus"), MetaXml("x", "zzz")>>,
       <<Root, Dir("keanus"), Dir("sub"), MetaXml("c", "keanu")>>,
       <<Root, Dir("simons"), Dir("s"), MetaXml("s", "simon")>>,
       <<Root, Dir("simons"), Dir("s"), MetaXml("a", "keanu")>>,
       <<Root, Dir("simons"), Dir("s"), Dir("deep"), MetaXml("d", "simon")>>,
       <<Root, Dir("simons"), Dir("s"), Dir("tinas"), MetaXml("g", "tinafeyFolder")>>,
       <<Root, Dir("simons"), MetaXml("t", "simon")>>,
       <<Root, Dir("simons"), Dir("t"), File("f", "js")>>,
       <<Root, Dir("tinas"), MetaXml("f", "tinafeyFolder")>>,
       <<Root, Dir("tinas"), Dir("f"), MetaXml("r", "tina")>>,
       <<Root, Dir("tinas"), Dir("f"), Dir("r"), MetaXml("x", "tina")>> >>

CandidateFiles == {Candidates[i] : i \in 1..Len(Candidates)}

\* a file name of several tokens: its base is a sequence
Name(base, suffix, meta) == [base |-> base, suffix |-> suffix, meta |-> meta]

\* more files a tree may hold, listed after the ones above: names that begin
\* with the name of a sibling, a descriptor next to a type's directory, and
\* a decomposed component
TreeCandidates ==
    << <<Root, Dir("tinas"), Dir("f"), Name(<<"r", "r">>, "tina", TRUE)>>,
       <<Root, Dir("tinas"), Dir("f"), Dir("r"), Dir("d"), File("e", "js")>>,
       <<Root, Dir("simons"), Name(<<"t", "t">>, "simon", TRUE)>>,
       <<Root, MetaXml("tinas", "keanu")>>,
       <<Root, Dir("reginas"), Dir("a"), MetaXml("a", "regina")>>,
       <<Root, Dir("reginas"), Dir("a"), Dir("xs"), MetaXml("z", "x")>>,
       <<Root, Dir("reginas"), Dir("a"), Dir("xs"), MetaXml("w", "x")>> >>

AllCandidates == Candidates \o TreeCandidates

Prefixes(p) == {SubSeq(p, 1, n) : n \in 1..Len(p)}

\* every path a call may name: the candidate files and their directories
AllPaths == UNION {Prefixes(f) : f \in CandidateFiles}

\* the directories of the tree: the proper prefixes of its files
Directories == UNION {Prefixes(dirname(f)) : f \in files}

exists(p) == p \in files \/ p \in Directories

isDirectory(p) == p \in Directories

RECURSIVE Listing(_, _, _)
Listing(d, i, acc) ==
    IF i > Len(AllCandidates) THEN acc
    ELSE LET c == AllCandidates[i]
             under == c \in files /\ Len(c) > Len(d) /\ IsPrefix(d, c)
             n == c[Len(d) + 1]
         IN IF under /\ ~(\E k \in 1..Len(acc) : acc[k] = n)
            THEN Listing(d, i + 1, Append(acc, n))
            ELSE Listing(d, i + 1, acc)

Reverse(s) == [i \in 1..Len(s) |-> s[Len(s) + 1 - i]]

\* the names of the children of a directory, in the container's order
readDir(d) == IF reversed THEN Reverse(Listing(d, 1, <<>>)) ELSE Listing(d, 1, <<>>)

\* walk, were no ignore set given
IgnoredNever(ignore, p) == FALSE

\* the test of walk on a file: whether the ignore set holds its path
Ignored(ignore, p) == ignore # Undefined /\ p \in ignore[1]

RECURSIVE walk(_, _), WalkFrom(_, _, _, _)
\* the loop of walk over the children of dir, from the i-th on
WalkFrom(dir, names, i, ignore) ==
    IF i > Len(names) THEN <<>>
    ELSE LET p == Append(dir, names[i])
         IN (IF isDirectory(p) THEN walk(p, ignore)
             ELSE IF ~Ignored(ignore, p) THEN <<p>>
             ELSE <<>>) \o WalkFrom(dir, names, i + 1, ignore)

\* BaseTreeContainer.walk
walk(dir, ignore) == WalkFrom(dir, readDir(dir), 1, ignore)

\* String.startsWith of a file name and a full name (a full name holds no dot)
startsWith(f, fullName) == IsPrefix(fullName, f.base)

RECURSIVE FindFrom(_, _, _, _, _)
FindFrom(names, i, dir, fullName, findMetadataXml) ==
    IF i > Len(names) THEN Undefined
    ELSE LET parsed == parseMetadataXml(Append(dir, names[i]))
             metaXmlCondition == IF findMetadataXml THEN parsed # Undefined
                                 ELSE parsed = Undefined
         IN IF startsWith(names[i], fullName) /\ metaXmlCondition
            THEN Some(Append(dir, names[i]))
            ELSE FindFrom(names, i + 1, dir, fullName, findMetadataXml)

find(dir, fullName, findMetadataXml) ==
    FindFrom(readDir(dir), 1, dir, fullName, findMetadataXml)

\* findContent, were it to look for a descriptor as findMetadataXml does
findContentAsXml(dir, fullName) == find(dir, fullName, TRUE)

findContent(dir, fullName) == find(dir, fullName, FALSE)

findMetadataXml(dir, fullName) == find(dir, fullName, TRUE)

\* Array.findIndex, 0-based, -1 shifted to 0: the 1-based index or 0
FindIndex(parts, name) ==
    IF \E i \in 1..Len(parts) : parts[i] = name
    THEN CHOOSE i \in 1..Len(parts) :
            parts[i] = name /\ \A j \in 1..(i - 1) : parts[j] # name
    ELSE 0

Min(a, b) == IF a <= b THEN a ELSE b

findXmlFromContentPath(contentPath, type) ==
    LET typeFolderIndex == FindIndex(contentPath, Dir(type.directoryName))
        offset == IF type.inFolder THEN 3 ELSE 2
        rootContentPath ==
            SubSeq(contentPath, 1, Min(Len(contentPath), typeFolderIndex - 1 + offset))
        rootTypeDirectory == dirname(rootContentPath)
        contentFullName == baseName(rootContentPath)
    IN findMetadataXml(rootTypeDirectory, contentFullName)

\* ForceIgnore.denies
denies(p) == p \in denied

-----------------------------------------------------------------------------
(* The tree container of a remote repository: GithubFileContainer *)

\* GithubFileContainer.tree as constructed: a map with no key
NoTree == [p \in {} |-> {}]

\* result.tree of the response: an entry for every file (a blob) and for
\* every directory (a tree) of the repository
Response ==
    {[path |-> f, type |-> "blob"] : f \in files}
       \cup {[path |-> d, type |-> "tree"] : d \in Directories}

\* the loop of fetch over the entries of the response
RECURSIVE FetchEntries(_, _)
FetchEntries(map, entries) ==
    IF entries = {} THEN map
    ELSE LET entry == CHOOSE e \in entries : TRUE
             parent == dirname(entry.path)
             withParent == IF parent \in DOMAIN map THEN map ELSE map @@ (parent :> {})
             withEntry == [withParent EXCEPT ![parent] = @ \cup {entry.path}]
             withTree == IF entry.type = "tree" /\ entry.path \notin DOMAIN withEntry
                         THEN withEntry @@ (entry.path :> {})
                         ELSE withEntry
         IN FetchEntries(withTree, entries \ {entry})

\* what a call of the container gives: a value, or the error it throws
Returns(value) == [status |-> "ok", value |-> value]
Throws(error) == [status |-> error, value |-> FALSE]

\* GithubFileContainer.exists: this.tree.get(dirname(path)) is undefined for
\* a directory that is no key of the map, and .has of undefined throws
githubExists(path) ==
    IF dirname(path) \notin DOMAIN tree THEN Throws("TypeError")
    ELSE Returns(path \in tree[dirname(path)] \/ path \in DOMAIN tree)

\* GithubFileContainer.isDirectory
githubIsDirectory(path) ==
    LET found == githubExists(path)
    IN IF found.status # "ok" THEN found
       ELSE IF found.value THEN Returns(path \in DOMAIN tree)
       ELSE Throws("error_does_not_exist")

-----------------------------------------------------------------------------
(* Type inference: RegistryAccess.determineTypeId *)

\* attempt 1, were folder components not left to the later attempts
RECURSIVE MixedAttemptNoFolderCheck(_, _)
MixedAttemptNoFolderCheck(fsPath, i) ==
    IF i > Len(mixedOrder) THEN ""
    ELSE IF \E k \in 1..Len(fsPath) : fsPath[k] = Dir(mixedOrder[i])
    THEN MixedContent[mixedOrder[i]]
    ELSE MixedAttemptNoFolderCheck(fsPath, i + 1)

\* attempt 1: the first key of data.mixedContent that is a part of the path
\* decides, and the loop breaks there
RECURSIVE MixedAttempt(_, _)
MixedAttempt(fsPath, i) ==
    IF i > Len(mixedOrder) THEN ""
    ELSE LET directoryName == mixedOrder[i]
         IN IF \E k \in 1..Len(fsPath) : fsPath[k] = Dir(directoryName)
            THEN LET typeId == MixedContent[directoryName]
                     isFolderType == getTypeFromName(typeId).inFolder
                 IN IF isFolderType /\ parentName(fsPath) = Some(Dir(directoryName))
                    THEN ""
                    ELSE typeId
            ELSE MixedAttempt(fsPath, i + 1)

\* attempt 2: the suffix of a metadata xml file name
SuffixAttempt(fsPath) ==
    LET parsedMetaXml == parseMetadataXml(fsPath)
    IN IF parsedMetaXml # Undefined THEN SuffixType(parsedMetaXml[1].suffix) ELSE ""

\* attempt 3: the file extension taken as a suffix
ExtensionAttempt(fsPath) == SuffixType(extName(fsPath))

\* determineTypeId, were the suffix of a metadata xml tried first
determineTypeIdSuffixFirst(fsPath) ==
    LET first == SuffixAttempt(fsPath)
        second == IF first = "" THEN MixedAttempt(fsPath, 1) ELSE first
    IN IF second = "" THEN ExtensionAttempt(fsPath) ELSE second

determineTypeId(fsPath) ==
    LET first == MixedAttempt(fsPath, 1)
        second == IF first = "" THEN SuffixAttempt(fsPath) ELSE first
    IN IF second = "" THEN ExtensionAttempt(fsPath) ELSE second

-----------------------------------------------------------------------------
(* Source adapters, after section 4.4 of the specification: the component a
   path belongs to, built from its metadata xml *)

Component(typeId, fullName, xml, content) ==
    [src |-> TRUE, type |-> typeId, fullName |-> fullName, xml |-> xml, content |-> content]

\* an abstract (fullName, type) member, with no source
Member(typeId, fullName) ==
    [src |-> FALSE, type |-> typeId, fullName |-> fullName,
     xml |-> Undefined, content |-> Undefined]

\* SourceComponent children, after section 4.6 of the specification: a
\* decomposed component has one child per fragment file under its content
\* root, named <parent>.<child> and holding a reference to its parent
Child(typeId, fullName, xml, parent) ==
    [src |-> TRUE, type |-> typeId, fullName |-> fullName, xml |-> xml,
     content |-> Undefined, parent |-> parent]

\* component.parent is set
HasParent(component) == "parent" \in DOMAIN component

\* the fragment files found under a content root that is no directory of
\* the tree at hand
Fragments(content) ==
    IF content = Undefined THEN <<>>
    ELSE IF content[1] = <<Dir("p")>> THEN <<"c1", "c2">>
    ELSE <<"c1">>

\* the suffix of the child type of a decomposed type
ChildSuffix == "x"

\* the fragment files the tree scan finds under a content root of the tree
ScannedFragments(content) ==
    LET IsFragment(p) == /\ parseMetadataXml(p) # Undefined
                         /\ parseMetadataXml(p)[1].suffix = ChildSuffix
    IN SelectSeq(walk(content, Undefined), IsFragment)

\* SourceComponent.getChildren
getChildren(component) ==
    IF getParentType("x") # component.type THEN <<>>
    ELSE IF component.content # Undefined /\ isDirectory(component.content[1])
    THEN LET paths == ScannedFragments(component.content[1])
         IN [i \in 1..Len(paths) |->
                Child("x", component.fullName \o <<".">> \o baseName(paths[i]),
                      Some(paths[i]), component)]
    ELSE LET names == Fragments(component.content)
         IN [i \in 1..Len(names) |->
                Child("x", component.fullName \o <<".", names[i]>>,
                      Some(component.content[1] \o <<MetaXml(names[i], "x")>>),
                      component)]

\* the decomposed adapter: the component of a descriptor below the content
\* root of a decomposed component (the directory one level below the type's
\* directory).  The descriptor of a child gives the child, taken from the
\* children of the component; any other gives the component itself.
getDecomposedComponent(typeId, fsPath) ==
    LET type == getTypeFromName(typeId)
        at == FindIndex(fsPath, Dir(type.directoryName))
        root == SubSeq(fsPath, 1, at + 1)
        parent == Component(typeId, baseName(root),
                            findMetadataXml(root, baseName(root)), Some(root))
        parsed == parseMetadataXml(fsPath)
    IN IF at = 0 \/ Len(fsPath) < at + 2 THEN Undefined
       ELSE IF parsed # Undefined /\ parsed[1].suffix = ChildSuffix
       THEN LET children == getChildren(parent)
                Same(c) == c.xml = Some(fsPath)
            IN IF SelectSeq(children, Same) = <<>> THEN Undefined
               ELSE Some(SelectSeq(children, Same)[1])
       ELSE Some(parent)

\* the adapter of a type: data.adapters[typeId]
Adapters == [reginaking |-> "decomposed"]

getDefaultComponent(typeId, fsPath) ==
    LET type == getTypeFromName(typeId)
        isMixed == MixedType(type.directoryName) = typeId
        xml == IF parseMetadataXml(fsPath) # Undefined THEN Some(fsPath)
               ELSE IF isMixed THEN findXmlFromContentPath(fsPath, type)
               ELSE findMetadataXml(dirname(fsPath), baseName(fsPath))
    IN IF xml = Undefined THEN Undefined
       ELSE IF denies(xml[1]) THEN Undefined
       ELSE LET dir == dirname(xml[1])
                fullName == baseName(xml[1])
                atTypeLevel ==
                    parentName(IF type.inFolder THEN dir ELSE xml[1])
                        = Some(Dir(type.directoryName))
                content == IF isMixed /\ ~atTypeLevel THEN Some(dir)
                           ELSE findContent(dir, fullName)
            IN Some(Component(typeId, fullName, xml, content))

\* SourceAdapter.getComponent of the adapter of the type
getComponent(typeId, fsPath) ==
    IF typeId \notin DOMAIN Adapters THEN getDefaultComponent(typeId, fsPath)
    ELSE IF denies(fsPath) THEN Undefined
    ELSE getDecomposedComponent(typeId, fsPath)

-----------------------------------------------------------------------------
(* The resolver.  Every operation returns what it did as a record: a status
   ("ok" or the error raised), its value, and the log of the calls made. *)

\* a logged call: the operation, its path argument and, for type inference,
\* the type id it returned
Event(op, p) == [op |-> op, path |-> p, value |-> ""]

Inferred(p, typeId) == [op |-> "determineTypeId", path |-> p, value |-> typeId]

\* line 137, were nothing returned instead of the error
ReturnNoComponent(fsPath, log) ==
    [status |-> "ok", component |-> Undefined, errPath |-> <<>>, log |-> log]

\* line 137: fetchComponent throws could-not-infer-type
ThrowCouldNotInferType(fsPath, log) ==
    [status |-> "error_could_not_infer_type", component |-> Undefined,
     errPath |-> fsPath, log |-> log]

\* line 122, were the test of the ignore rules inverted
AllowedMetaXml(fsPath) == parseMetadataXml(fsPath) # Undefined /\ ~denies(fsPath)

\* line 122: the path is a metadata xml that the ignore rules deny
DeniedMetaXml(fsPath) == parseMetadataXml(fsPath) # Undefined /\ denies(fsPath)

\* RegistryAccess.fetchComponent
fetchComponent(fsPath) ==
    LET isXml == parseMetadataXml(fsPath) # Undefined
        log0 == <<Event("fetchComponent", fsPath)>>
                  \o (IF isXml THEN <<Event("denies", fsPath)>> ELSE <<>>)
    IN IF DeniedMetaXml(fsPath)
       THEN [status |-> "ok", component |-> Undefined, errPath |-> <<>>, log |-> log0]
       ELSE LET typeId == determineTypeId(fsPath)
                log1 == Append(log0, Inferred(fsPath, typeId))
            IN IF typeId # ""
               THEN [status |-> "ok", component |-> getComponent(typeId, fsPath),
                     errPath |-> <<>>, log |-> Append(log1, Event("getComponent", fsPath))]
               ELSE ThrowCouldNotInferType(fsPath, log1)

\* path.basename(path.dirname(p)); the dirname of a single name is "."
DirBasename(p) == IF Len(p) >= 2 THEN p[Len(p) - 1] ELSE Dir(".")

\* lines 158-160, were the return of line 160 under no condition
StopsScanAfterFirst(component, path) == TRUE

\* lines 158-160, were every type taken to live in folders
StopsScanOneLevelUp(component, path) ==
    LET type == getTypeFromName(component.type)
    IN MixedType(type.directoryName) # ""
         /\ DirBasename(dirname(path)) # Dir(type.directoryName)

\* lines 158-160: whether the scan of the directory holding path stops
\* after this component was pushed
StopsScan(component, path) ==
    LET type == getTypeFromName(component.type)
        isMixedContent == MixedType(type.directoryName) # ""
        typeDir == DirBasename(IF type.inFolder THEN dirname(path) ELSE path)
    IN isMixedContent /\ typeDir # Dir(type.directoryName)

\* line 151: dirQueue.push(path)
Enqueue(dirQueue, path) == Append(dirQueue, path)

\* line 155, were the component put first
Unshift(comps, component) == <<component>> \o comps

\* line 155: components.push(component)
Push(comps, component) == Append(comps, component)

RECURSIVE getComponentsFromPathRecursive(_)
RECURSIVE ScanFiles(_, _, _, _, _, _)
RECURSIVE WalkQueue(_, _, _, _)

\* the first loop of getComponentsFromPathRecursive, from the i-th child on;
\* comps, dirQueue and log are the locals as they stand
\* (CHOOSE over a one-element set binds a value that is computed once)
ScanFiles(directory, names, i, comps0, dirQueue0, log0) ==
    CHOOSE result \in
      {IF i > Len(names)
       THEN WalkQueue(dirQueue, 1, comps, log)
       ELSE LET path == Append(directory, names[i])
                log1 == Append(log, Event("isDirectory", path))
            IN IF isDirectory(path)
               THEN ScanFiles(directory, names, i + 1, comps, Enqueue(dirQueue, path), log1)
               ELSE IF parseMetadataXml(path) = Undefined
               THEN ScanFiles(directory, names, i + 1, comps, dirQueue, log1)
               ELSE CHOOSE fetched \in
                      {LET log2 == log1 \o f.log
                       IN IF f.status # "ok"
                          THEN [status |-> f.status, comps |-> <<>>,
                                errPath |-> f.errPath, log |-> log2]
                          ELSE IF f.component = Undefined
                          THEN ScanFiles(directory, names, i + 1, comps, dirQueue, log2)
                          ELSE LET pushed == Push(comps, f.component[1])
                                   log3 == Append(log2, Event("push", path))
                               IN IF StopsScan(f.component[1], path)
                                  THEN [status |-> "ok", comps |-> pushed,
                                        errPath |-> <<>>, log |-> log3]
                                  ELSE ScanFiles(directory, names, i + 1,
                                                 pushed, dirQueue, log3)
                       : f \in {fetchComponent(path)}} : TRUE
       : comps \in {comps0}, dirQueue \in {dirQueue0}, log \in {log0}} : TRUE

\* the second loop: the queued directories, in the order they were queued
WalkQueue(dirQueue, j, comps0, log0) ==
    CHOOSE result \in
      {IF j > Len(dirQueue)
       THEN [status |-> "ok", comps |-> comps, errPath |-> <<>>, log |-> log]
       ELSE CHOOSE walked \in
              {IF sub.status # "ok"
               THEN [status |-> sub.status, comps |-> <<>>,
                     errPath |-> sub.errPath, log |-> log \o sub.log]
               ELSE WalkQueue(dirQueue, j + 1, comps \o sub.comps, log \o sub.log)
               : sub \in {getComponentsFromPathRecursive(dirQueue[j])}} : TRUE
       : comps \in {comps0}, log \in {log0}} : TRUE

getComponentsFromPathRecursive(directory) ==
    LET log0 == <<Event("walk", directory), Event("denies", directory)>>
    IN IF denies(directory)
       THEN [status |-> "ok", comps |-> <<>>, errPath |-> <<>>, log |-> log0]
       ELSE ScanFiles(directory, readDir(directory), 1, <<>>, <<>>,
                      Append(log0, Event("readDir", directory)))

\* lines 70-79: the path to fetch for a directory
PathForFetch(fsPath) ==
    LET typeId == determineTypeId(fsPath)
    IN IF typeId = "" THEN fsPath
       ELSE LET type == getTypeFromName(typeId)
                folderOffset == IF type.inFolder THEN 2 ELSE 1
                part == IF Len(fsPath) + 1 - folderOffset >= 1
                        THEN Some(fsPath[Len(fsPath) + 1 - folderOffset])
                        ELSE Undefined
            IN IF part # Some(Dir(type.directoryName))
               THEN LET xml == findXmlFromContentPath(fsPath, type)
                    IN IF xml # Undefined THEN xml[1] ELSE fsPath
               ELSE fsPath

\* line 61, were an empty list returned instead of the error
ReturnEmptyList(fsPath, log) ==
    [status |-> "ok", comps |-> <<>>, errPath |-> <<>>, log |-> log]

\* line 61: getComponentsFromPath throws path-not-found
ThrowPathNotFound(fsPath, log) ==
    [status |-> "error_path_not_found", comps |-> <<>>, errPath |-> fsPath, log |-> log]

\* RegistryAccess.getComponentsFromPath
getComponentsFromPath(fsPath) ==
    LET log0 == <<Event("exists", fsPath)>>
    IN IF ~exists(fsPath)
       THEN ThrowPathNotFound(fsPath, log0)
       ELSE LET log1 == Append(log0, Event("isDirectory", fsPath))
                isDir == isDirectory(fsPath)
                pathForFetch == IF isDir THEN PathForFetch(fsPath) ELSE fsPath
                log2 == IF isDir THEN Append(log1, Inferred(fsPath, determineTypeId(fsPath)))
                        ELSE log1
            IN IF isDir /\ pathForFetch = fsPath
               THEN CHOOSE result \in
                      {[w EXCEPT !.log = log2 \o w.log]
                       : w \in {getComponentsFromPathRecursive(fsPath)}} : TRUE
               ELSE CHOOSE result \in
                      {[status |-> f.status,
                        comps |-> IF f.status = "ok" /\ f.component # Undefined
                                  THEN <<f.component[1]>> ELSE <<>>,
                        errPath |-> f.errPath,
                        log |-> log2 \o f.log]
                       : f \in {fetchComponent(pathForFetch)}} : TRUE

\* getComponentsFromPath of a resolver bound to the container: line 60 asks
\* the container whether the path exists
githubGetComponentsFromPath(fsPath) ==
    LET found == githubExists(fsPath)
        log0 == <<Event("exists", fsPath)>>
    IN IF found.status # "ok"
       THEN [status |-> found.status, comps |-> <<>>, errPath |-> fsPath, log |-> log0]
       ELSE IF ~found.value THEN ThrowPathNotFound(fsPath, log0)
       ELSE getComponentsFromPath(fsPath)

-----------------------------------------------------------------------------
(* ComponentSet.  A Map is a sequence of [key, value] entries in insertion
   order; keys are strings, built by concatenation as the code builds them. *)

KEY_DELIMITER == "#"

NameStr(n) ==
    n.base \o (IF n.suffix # "" THEN <<".", n.suffix>> ELSE <<>>)
           \o (IF n.meta THEN <<"-meta.xml">> ELSE <<>>)

\* a path as a string: its names joined by the separator
RECURSIVE PathStr(_)
PathStr(p) ==
    IF Len(p) = 0 THEN <<>>
    ELSE IF Len(p) = 1 THEN NameStr(p[1])
    ELSE PathStr(dirname(p)) \o <<"/">> \o NameStr(basename(p))

\* `${x ?? ''}` of an optional path
OrEmpty(x) == IF x = Undefined THEN <<>> ELSE PathStr(x[1])

\* a ComponentLike whose type is given as a name string
Like(typeString, fullName) ==
    [src |-> FALSE, type |-> typeString, typeof |-> "string", fullName |-> fullName,
     xml |-> Undefined, content |-> Undefined]

\* typeof component.type === 'string'
IsTypeString(component) == "typeof" \in DOMAIN component

\* simpleKey, were a type name taken as it is spelled
simpleKeyAsSpelled(component) ==
    LET typeName == IF IsTypeString(component)
                    THEN component.type
                    ELSE getTypeFromName(component.type).id
    IN <<typeName, KEY_DELIMITER>> \o component.fullName

\* ComponentSet.simpleKey
simpleKey(component) ==
    LET typeName == IF IsTypeString(component)
                    THEN trim(toLowerCase[component.type])
                    ELSE getTypeFromName(component.type).id
    IN <<typeName, KEY_DELIMITER>> \o component.fullName

\* ComponentSet.sourceKey
sourceKey(component) ==
    getTypeFromName(component.type).name \o component.fullName
        \o OrEmpty(component.xml) \o OrEmpty(component.content)

MapHas(map, key) == \E i \in 1..Len(map) : map[i].key = key

MapIndex(map, key) == CHOOSE i \in 1..Len(map) : map[i].key = key

MapGet(map, key) == map[MapIndex(map, key)].value

\* Map.set: a new key goes last, a known key keeps its place
MapSet(map, key, value) ==
    IF MapHas(map, key)
    THEN [map EXCEPT ![MapIndex(map, key)].value = value]
    ELSE Append(map, [key |-> key, value |-> value])

\* ComponentSet.add, on the outer map
add(map, component) ==
    LET key == simpleKey(component)
        withKey == IF ~MapHas(map, key) THEN MapSet(map, key, <<>>) ELSE map
    IN IF component.src
       THEN MapSet(withKey, key,
                   MapSet(MapGet(withKey, key), sourceKey(component), component))
       ELSE withKey

\* ComponentSet.has
has(map, component) == MapHas(map, simpleKey(component))

RECURSIVE SizeFrom(_, _)
SizeFrom(map, i) ==
    IF i > Len(map) THEN 0
    ELSE (IF Len(map[i].value) = 0 THEN 1 ELSE Len(map[i].value)) + SizeFrom(map, i + 1)

\* size, were it the number of outer keys
sizeOfOuterKeys(map) == Len(map)

\* ComponentSet.size
size(map) == SizeFrom(map, 1)

WILDCARD == "*"

\* String.includes, for a one-character search string
includes(s, d) == \E i \in 1..Len(s) : s[i] = d

\* String.split: the pieces of s between the occurrences of d
RECURSIVE split(_, _)
split(s, d) ==
    IF ~includes(s, d) THEN <<s>>
    ELSE LET i == CHOOSE k \in 1..Len(s) : s[k] = d /\ \A j \in 1..(k - 1) : s[j] # d
         IN <<SubSeq(s, 1, i - 1)>> \o split(SubSeq(s, i + 1, Len(s)), d)

\* Map.values
Values(map) == [i \in 1..Len(map) |-> map[i].value]

\* component instanceof SourceComponent
SourceOnly(seq) == LET IsSource(c) == c.src IN SelectSeq(seq, IsSource)

\* the abstract component the iterator builds from an outer key
FromKey(key) ==
    LET parts == split(key, KEY_DELIMITER)
    IN Member(getTypeByName(parts[1][1]).id, parts[2])

RECURSIVE IteratorFrom(_, _)
IteratorFrom(map, i) ==
    IF i > Len(map) THEN <<>>
    ELSE (IF Len(map[i].value) = 0 THEN <<FromKey(map[i].key)>> ELSE Values(map[i].value))
            \o IteratorFrom(map, i + 1)

\* ComponentSet[Symbol.iterator]: what a full iteration yields, in order
iterator(map) == IteratorFrom(map, 1)

-----------------------------------------------------------------------------
(* ComponentSet: source components, manifest objects, filtered resolution *)

\* Array.find in findChildrenThroughParent
RECURSIVE FindChild(_, _, _)
FindChild(children, childFullName, i) ==
    IF i > Len(children) THEN <<>>
    ELSE IF children[i].fullName = childFullName THEN <<children[i]>>
    ELSE FindChild(children, childFullName, i + 1)

RECURSIVE ChildrenOfParents(_, _, _)
ChildrenOfParents(parents, childFullName, i) ==
    IF i > Len(parents) THEN <<>>
    ELSE FindChild(getChildren(parents[i]), childFullName, 1)
            \o ChildrenOfParents(parents, childFullName, i + 1)

\* ComponentSet.findChildrenThroughParent
findChildrenThroughParent(map, parentType, childFullName) ==
    LET parentKey == simpleKey(Member(parentType, split(childFullName, ".")[1]))
    IN IF MapHas(map, parentKey)
       THEN ChildrenOfParents(Values(MapGet(map, parentKey)), childFullName, 1)
       ELSE <<>>

\* line 288, were the member's own collection left out
NoMemberCollection(map, key) == <<>>

\* line 288: the source components stored under the member's own key
MemberCollection(map, key) ==
    IF MapHas(map, key) /\ Len(MapGet(map, key)) > 0 THEN Values(MapGet(map, key)) ELSE <<>>

\* ComponentSet.getSourceComponents; forMember is optional
getSourceComponents(map, forMember) ==
    IF forMember # Undefined
    THEN LET parentType == getParentType(forMember[1].type)
             throughParent ==
                 IF parentType # ""
                 THEN findChildrenThroughParent(map, parentType, forMember[1].fullName)
                 ELSE <<>>
         IN throughParent \o SourceOnly(MemberCollection(map, simpleKey(forMember[1])))
    ELSE SourceOnly(iterator(map))

\* line 146, were the test on size
NoSize(map) == size(map) = 0

\* line 146: there is nothing to deploy
NoSourceToDeploy(map) == Len(getSourceComponents(map, Undefined)) = 0

\* ComponentSet.deploy: the error raised, or the operation built on the set
deploy(map) ==
    IF NoSourceToDeploy(map) THEN "error_no_source_to_deploy" ELSE "MetadataApiDeploy"

\* ComponentSet.retrieve
retrieve(map) ==
    IF size(map) = 0 THEN "error_no_components_to_retrieve" ELSE "MetadataApiRetrieve"

\* an array, as the manifest object holds it
Array(items) == [isArray |-> TRUE, items |-> items]

\* a value where an array may stand: an XML element that occurs once
Single(item) == [isArray |-> FALSE, item |-> item]

\* lines 120 and 122, were only the first element of an array read
FirstOf(x) ==
    IF x.isArray THEN SubSeq(x.items, 1, IF Len(x.items) > 0 THEN 1 ELSE 0) ELSE <<x.item>>

\* Array.isArray(x) ? x : [x]
ArrayOf(x) == IF x.isArray THEN x.items ELSE <<x.item>>

RECURSIVE TypeMapFrom(_, _, _)
TypeMapFrom(map, i, typeMap) ==
    IF i > Len(map) THEN typeMap
    ELSE LET parts == split(map[i].key, KEY_DELIMITER)
             fullName == parts[2]
             byId == getTypeByName(parts[1][1])
             type == IF byId.id \in DOMAIN FolderContentType
                     THEN getTypeByName(FolderContentType[byId.id])
                     ELSE byId
             withKey == IF ~MapHas(typeMap, type.name)
                        THEN MapSet(typeMap, type.name, <<>>)
                        ELSE typeMap
         IN TypeMapFrom(map, i + 1,
                        MapSet(withKey, type.name,
                               Append(MapGet(withKey, type.name), fullName)))

\* ComponentSet.getObject
getObject(map, version) ==
    LET typeMap == TypeMapFrom(map, 1, <<>>)
    IN [types |-> Array([k \in 1..Len(typeMap) |->
                            [members |-> Array(typeMap[k].value), name |-> typeMap[k].key]]),
        version |-> version]

XML_NS_URL == "XML_NS_URL"

\* ComponentSet.getPackageXml: the object given to the XML writer
getPackageXml(map, version) ==
    [Package |-> getObject(map, version), xmlns |-> XML_NS_URL]

\* the components of one type block
MembersOfBlock(block) ==
    LET fullNames == ArrayOf(block.members)
        byName == getTypeByName(block.name[1])
    IN [i \in 1..Len(fullNames) |->
            Member(IF byName.id \in DOMAIN FolderType /\ ~includes(fullNames[i], "/")
                   THEN getTypeByName(FolderType[byName.id]).id
                   ELSE byName.id,
                   fullNames[i])]

RECURSIVE MembersFrom(_, _)
MembersFrom(typeMembers, i) ==
    IF i > Len(typeMembers) THEN <<>>
    ELSE MembersOfBlock(typeMembers[i]) \o MembersFrom(typeMembers, i + 1)

\* ComponentSet.getComponentsFromManifestObject
getComponentsFromManifestObject(obj) == MembersFrom(ArrayOf(obj.types), 1)

RECURSIVE AddAll(_, _, _)
AddAll(map, seq, i) ==
    IF i > Len(seq) THEN map ELSE AddAll(add(map, seq[i]), seq, i + 1)

\* the ComponentSet constructor
ComponentSet(seq) == AddAll(<<>>, seq, 1)

Wildcard(typeId) == Member(typeId, <<WILDCARD>>)

includedInWildcard(filterSet, component) == has(filterSet, Wildcard(component.type))

\* lines 234-240, were a wildcard of the parent's type not looked for
parentInFilterExactly(filterSet, component) ==
    HasParent(component) /\ has(filterSet, component.parent)

parentInFilter(filterSet, component) ==
    /\ HasParent(component)
    /\ (has(filterSet, component.parent) \/ has(filterSet, Wildcard(component.parent.type)))

\* the components that lines 229-256 add for one resolved component
Selected(filter, component) ==
    IF filter # Undefined
    THEN IF \/ has(filter[1], component)
            \/ includedInWildcard(filter[1], component)
            \/ parentInFilter(filter[1], component)
         THEN <<component>>
         ELSE LET InFilter(childComponent) == has(filter[1], childComponent)
              IN SelectSeq(getChildren(component), InFilter)
    ELSE <<component>>

RECURSIVE SelectedFrom(_, _, _)
SelectedFrom(filter, resolved, i) ==
    IF i > Len(resolved) THEN <<>>
    ELSE Selected(filter, resolved[i]) \o SelectedFrom(filter, resolved, i + 1)

\* line 259, were every resolved component returned
ReturnResolved(resolved, selected) == ComponentSet(resolved)

\* line 259: the set of the components added in this call
ReturnSourceComponents(resolved, selected) == ComponentSet(selected)

\* options.filter given as a ComponentSet, and as an iterable of components
FilterSet(map) == [isSet |-> TRUE, components |-> map]
FilterItems(seq) == [isSet |-> FALSE, items |-> seq]

\* lines 218-221: filter instanceof ComponentSet ? filter : new ComponentSet(filter)
FilterSetOf(filter) ==
    IF filter = Undefined THEN Undefined
    ELSE IF filter[1].isSet THEN Some(filter[1].components)
    ELSE Some(ComponentSet(filter[1].items))

\* ComponentSet.resolveSourceComponents on the components the resolver
\* returned for the path: the receiver's map after the call, the set
\* returned, the components passed to add, in order, and the map of the
\* filter set after the call (only has is called on it)
resolveSourceComponents(map, resolved, filter) ==
    LET Result(filterSet, selected) ==
            [components |-> AddAll(map, selected, 1),
             sourceComponents |-> ReturnSourceComponents(resolved, selected),
             calls |-> selected,
             filterSet |-> filterSet]
        Filtered(filterSet) == Result(filterSet, SelectedFrom(filterSet, resolved, 1))
    IN Filtered(FilterSetOf(filter))

\* line 96: the member is added to the set itself
IsDirectMember(component, options) ==
    LET memberIsWildcard == component.fullName = <<WILDCARD>>
        shouldResolve == options.resolve # Undefined
    IN ~memberIsWildcard \/ options.literalWildcard \/ ~shouldResolve

RECURSIVE ResolveAll(_, _, _, _)
ResolveAll(ws, toResolve, filterSet, i) ==
    IF i > Len(toResolve) THEN [components |-> ws, calls |-> <<>>]
    ELSE LET Joined(one, rest) ==
                 [components |-> rest.components, calls |-> one.calls \o rest.calls]
             Then(one) == Joined(one, ResolveAll(one.components, toResolve, filterSet, i + 1))
         IN Then(resolveSourceComponents(ws, toResolve[i], Some(FilterSet(filterSet))))

\* ComponentSet.fromManifestFile, on the parsed manifest; options.resolve
\* holds, for each path to resolve, the components the resolver returns
fromManifestFile(manifestObj, options) ==
    LET shouldResolve == options.resolve # Undefined
        parsed == getComponentsFromManifestObject(manifestObj)
        IsDirect(component) == IsDirectMember(component, options)
        direct == SelectSeq(parsed, IsDirect)
        filterSet == IF shouldResolve THEN ComponentSet(parsed) ELSE <<>>
        ws == ComponentSet(direct)
        Built(after) ==
            [components |-> after.components, apiVersion |-> manifestObj.version,
             filterSet |-> filterSet, direct |-> direct, calls |-> after.calls]
    IN Built(IF shouldResolve
             THEN ResolveAll(ws, options.resolve[1], filterSet, 1)
             ELSE [components |-> ws, calls |-> <<>>])

-----------------------------------------------------------------------------
(* The components a caller may add: abstract members and source-backed
   components over two types, two names and two paths *)

PathP == <<Dir("p")>>
PathQ == <<Dir("q")>>

AddTypes == {"keanureeves", "kathybates"}
AddNames == {<<"a">>, <<"b">>}

AddUniverse ==
    {Member(t, n) : t \in AddTypes, n \in AddNames}
      \cup {Component(t, n, pc[1], pc[2]) :
                t \in AddTypes, n \in AddNames,
                pc \in {<<Some(PathP), Undefined>>, <<Undefined, Some(PathP)>>,
                        <<Some(PathP), Some(PathQ)>>}}

-----------------------------------------------------------------------------
(* The state machine *)

NoOutcome == [status |-> "none", comps |-> <<>>, errPath |-> <<>>, log |-> <<>>]

\* no operation other than add has been made on the set since the last add
NoAsk == [op |-> "none", arg |-> <<>>, value |-> <<>>]

\* registry.apiVersion
RegistryApiVersion == "48.0"

\* no tree, no call: the state a ComponentSet is built in
InitSet ==
    /\ files = {}
    /\ reversed = FALSE
    /\ mixedOrder = <<"simons", "tinas">>
    /\ denied = {}
    /\ tree = NoTree
    /\ call = Undefined
    /\ outcome = NoOutcome
    /\ components = <<>>
    /\ added = <<>>
    /\ apiVersion = RegistryApiVersion
    /\ asked = NoAsk

\* a resolver bound to a tree of at most MaxFiles files and to ignore rules
\* that deny at most MaxDenied of its paths
InitResolver ==
    /\ files \in {fs \in SUBSET CandidateFiles : Cardinality(fs) <= MaxFiles}
    /\ reversed \in BOOLEAN
    /\ mixedOrder \in MixedOrders
    /\ denied \in {d \in SUBSET (files \cup Directories) : Cardinality(d) <= MaxDenied}
    /\ tree = NoTree
    /\ call = Undefined
    /\ outcome = NoOutcome
    /\ components = <<>>
    /\ added = <<>>
    /\ apiVersion = RegistryApiVersion
    /\ asked = NoAsk

\* a caller adds a component to the set
Add(component) ==
    /\ Len(added) < MaxAdds
    /\ components' = add(components, component)
    /\ added' = Append(added, component)
    /\ asked' = NoAsk
    /\ UNCHANGED <<files, reversed, mixedOrder, denied, tree, call, outcome, apiVersion>>

\* a caller adds a component to a set no path was resolved into yet
AddBefore(component) == asked = NoAsk /\ Add(component)

\* a caller resolves a path; the call runs to its end
Resolve(fsPath) ==
    /\ call = Undefined
    /\ call' = Some(fsPath)
    /\ outcome' = getComponentsFromPath(fsPath)
    /\ UNCHANGED <<files, reversed, mixedOrder, denied, tree, components, added, apiVersion, asked>>

\* the caller has taken the result, and may call again
Return ==
    /\ call # Undefined
    /\ call' = Undefined
    /\ outcome' = NoOutcome
    /\ UNCHANGED <<files, reversed, mixedOrder, denied, tree, components, added, apiVersion, asked>>

\* a reading operation, were it to empty the map it reads
AskAndClear(op, arg, value) ==
    /\ asked' = [op |-> op, arg |-> arg, before |-> components, value |-> value]
    /\ components' = <<>>
    /\ UNCHANGED <<files, reversed, mixedOrder, denied, tree, call, outcome, added,
                   apiVersion>>

\* an operation that reads the set: what was asked and what came back
Ask(op, arg, value) ==
    /\ asked' = [op |-> op, arg |-> arg, before |-> components, value |-> value]
    /\ UNCHANGED <<files, reversed, mixedOrder, denied, tree, call, outcome, components, added,
                   apiVersion>>

Has(component) == Ask("has", component, has(components, component))

Iterate == Ask("iterator", <<>>, iterator(components))

GetSourceComponents(forMember) ==
    Ask("getSourceComponents", forMember, getSourceComponents(components, forMember))

Deploy == Ask("deploy", <<>>, deploy(components))

Retrieve == Ask("retrieve", <<>>, retrieve(components))

GetObject == Ask("getObject", <<>>, getObject(components, apiVersion))

GetPackageXml == Ask("getPackageXml", <<>>, getPackageXml(components, apiVersion))

Size == Ask("size", <<>>, size(components))

\* a set is built from a manifest; it takes the place of the set at hand
BuildFromManifest(manifestObj, options, origin) ==
    \E built \in {fromManifestFile(manifestObj, options)} :
        /\ components' = built.components
        /\ apiVersion' = built.apiVersion
        /\ added' = built.direct \o built.calls
        /\ asked' = [op |-> "fromManifestFile",
                     arg |-> [manifestObj |-> manifestObj, options |-> options,
                              origin |-> origin],
                     before |-> components,
                     value |-> built]
        /\ UNCHANGED <<files, reversed, mixedOrder, denied, tree, call, outcome>>

\* a manifest file is read into a new set
FromManifestFile(manifestObj, options) ==
    /\ added = <<>>
    /\ asked = NoAsk
    /\ BuildFromManifest(manifestObj, options, "file")

NoResolve == [resolve |-> Undefined, literalWildcard |-> FALSE]

\* the manifest object the set gave is parsed back into a new set
ParseObject ==
    /\ asked.op = "getObject"
    /\ BuildFromManifest(asked.value, NoResolve, "getObject")

\* the set resolves the source of a path; resolved is what the resolver
\* returns for the path.  One path is resolved into a set.
ResolveSourceComponents(resolved, filter) ==
    /\ asked = NoAsk
    /\ \E done \in {resolveSourceComponents(components, resolved, filter)} :
        /\ components' = done.components
        /\ added' = added \o done.calls
        /\ asked' = [op |-> "resolveSourceComponents",
                     arg |-> [resolved |-> resolved, filter |-> filter],
                     before |-> components,
                     value |-> done]
    /\ UNCHANGED <<files, reversed, mixedOrder, denied, tree, call, outcome, apiVersion>>

\* the container fetches the listing of the repository
Fetch ==
    /\ tree = NoTree
    /\ tree' = FetchEntries(tree, Response)
    /\ UNCHANGED <<files, reversed, mixedOrder, denied, call, outcome, components, added,
                   apiVersion, asked>>

GithubExists(path) == Ask("github.exists", path, githubExists(path))

GithubIsDirectory(path) == Ask("github.isDirectory", path, githubIsDirectory(path))

\* a caller resolves a path with a resolver bound to the container
GithubResolve(fsPath) ==
    /\ call = Undefined
    /\ call' = Some(fsPath)
    /\ outcome' = githubGetComponentsFromPath(fsPath)
    /\ UNCHANGED <<files, reversed, mixedOrder, denied, tree, components, added,
                   apiVersion, asked>>

\* a caller walks a directory of the tree
Walk(dir, ignore) == Ask("walk", [dir |-> dir, ignore |-> ignore], walk(dir, ignore))

\* a caller looks for the descriptor, or the content, of a full name
FindMetadataXml(dir, fullName) ==
    Ask("findMetadataXml", [dir |-> dir, fullName |-> fullName],
        findMetadataXml(dir, fullName))

FindContent(dir, fullName) ==
    Ask("findContent", [dir |-> dir, fullName |-> fullName], findContent(dir, fullName))

\* a caller looks for the descriptor of the component a content path is in
FindXmlFromContentPath(contentPath, typeId) ==
    Ask("findXmlFromContentPath", [contentPath |-> contentPath, type |-> typeId],
        findXmlFromContentPath(contentPath, getTypeFromName(typeId)))

-----------------------------------------------------------------------------
(* The components the callers of the model pass *)

NameA == <<"a">>
NameB == <<"b">>
\* a full name that holds the key delimiter
NameAB == <<"a", "#", "b">>
NameR == <<"r">>
\* a full name in a folder
NameFR == <<"f", "/", "r">>
NameF == <<"f">>

\* a decomposed component with two children, and one with one child
ReginaP == Component("reginaking", NameR, Some(PathQ), Some(PathP))
ReginaQ == Component("reginaking", NameR, Some(PathP), Some(PathQ))

NameC1 == <<"r", ".", "c1">>
NameC2 == <<"r", ".", "c2">>

\* what is added to a set that is then read
QueryUniverse ==
    {Member("keanureeves", NameA), Member("keanureeves", NameAB),
     Like("KeanuReeves", NameB),
     Component("keanureeves", NameA, Some(PathP), Undefined),
     Component("keanureeves", NameA, Some(PathP), Some(PathQ)),
     Member("reginaking", NameR), ReginaP, ReginaQ,
     getChildren(ReginaP)[1], Member("x", NameC1)}

\* the components has is asked about
HasUniverse ==
    {Member(t, n) : t \in {"keanureeves", "kathybates"}, n \in {NameA, NameB, NameAB}}
      \cup {Like(t, n) : t \in {"KeanuReeves", "KEANUREEVES", " KeanuReeves ", "KathyBates"},
                         n \in {NameA, NameB}}
      \cup {Member("reginaking", NameR), Member("x", NameC1),
            Component("keanureeves", NameA, Some(PathQ), Undefined)}

\* the members getSourceComponents is asked for
ForMemberUniverse ==
    {Undefined} \cup
    {Some(m) : m \in {Member("x", NameC1), Member("x", NameC2), Member("keanureeves", NameA),
                      Member("reginaking", NameR)}}

\* what is added to a set that is then written as a manifest
ManifestUniverse ==
    {Member("keanureeves", NameA), Member("keanureeves", NameB),
     Member("keanureeves", NameAB), Member("kathybates", NameA),
     Member("tinafey", NameFR), Member("tinafey", NameF), Member("tinafeyfolder", NameF),
     Component("keanureeves", NameA, Some(PathP), Undefined)}

KeanuA == Component("keanureeves", NameA, Some(PathP), Some(PathQ))
KeanuB == Component("keanureeves", NameB, Some(PathP), Undefined)
KathyA == Component("kathybates", NameA, Some(PathQ), Undefined)
TinaFR == Component("tinafey", NameFR, Some(PathP), Some(PathQ))

\* the manifests read from files, as the XML parser gives them: an element
\* that occurs once is not an array
ManifestObjects ==
    {[types |-> Single([members |-> Single(<<WILDCARD>>), name |-> <<"KeanuReeves">>]),
      version |-> "50.0"],
     [types |-> Array(<<[members |-> Array(<<NameA, <<WILDCARD>>>>), name |-> <<"KeanuReeves">>],
                        [members |-> Single(NameA), name |-> <<"KathyBates">>]>>),
      version |-> "50.0"],
     [types |-> Single([members |-> Array(<<<<WILDCARD>>, NameFR>>), name |-> <<"TinaFey">>]),
      version |-> "50.0"],
     [types |-> Single([members |-> Array(<<NameA, NameB>>), name |-> <<"KeanuReeves">>]),
      version |-> "50.0"],
     [types |-> Single([members |-> Single(<<WILDCARD>>), name |-> <<"TinaFey">>]),
      version |-> "50.0"]}

\* the sequences of at most n different members of a set
RECURSIVE SeqsOf(_, _)
SeqsOf(S, n) ==
    IF n = 0 THEN {<<>>}
    ELSE SeqsOf(S, n - 1) \cup
         {Append(q, e) : q \in {r \in SeqsOf(S, n - 1) : Len(r) = n - 1},
                         e \in S}

Distinct(q) == \A i, j \in 1..Len(q) : i # j => q[i] # q[j]

\* what the resolver returns for the paths a manifest is resolved against
ManifestResolved ==
    {q \in SeqsOf({KeanuA, KathyA, TinaFR}, MaxResolved) : Distinct(q)}

ManifestOptions ==
    {NoResolve, [resolve |-> Undefined, literalWildcard |-> TRUE]}
      \cup {[resolve |-> Some(<<r>>), literalWildcard |-> l] :
                r \in ManifestResolved, l \in BOOLEAN}

\* what the resolver returns for a path resolved into a set
ResolvedUniverse == {KeanuA, KeanuB, ReginaP, getChildren(ReginaQ)[1], KathyA}

ResolvedLists == {q \in SeqsOf(ResolvedUniverse, MaxResolved) : Distinct(q)}

\* a ComponentSet given as filter, with the components it was built from
FilterSetFrom(seq) == [isSet |-> TRUE, components |-> ComponentSet(seq), items |-> seq]

\* the members of filters, in a fixed order
FilterMembers ==
    <<Member("keanureeves", NameA), Wildcard("keanureeves"), Member("reginaking", NameR),
      Wildcard("reginaking"), Member("x", NameC1), Wildcard("x")>>

\* filters given as iterables of components, and filters of at most one
\* member given as ComponentSets
Filters ==
    {Undefined} \cup
    {Some(FilterItems(LET In(m) == m \in S IN SelectSeq(FilterMembers, In))) :
        S \in {T \in SUBSET {FilterMembers[i] : i \in 1..Len(FilterMembers)} :
                  Cardinality(T) <= MaxFilter}} \cup
    {Some(FilterSetFrom(q)) :
        q \in SeqsOf({FilterMembers[i] : i \in 1..Len(FilterMembers)}, 1)}

\* what a set paths were resolved into is asked
FilterHasUniverse == {Member("keanureeves", NameA), Member("x", NameC1)}
FilterForMemberUniverse == {Undefined, Some(Member("x", NameC1))}

\* what is in the set before a path is resolved into it
ReceiverUniverse == {Member("keanureeves", NameA), KeanuB}

\* the files of the trees the container's own operations are asked about
TreeFiles ==
    {TreeCandidates[i] : i \in 1..Len(TreeCandidates)} \cup
    {<<Root, Dir("tinas"), MetaXml("f", "tinafeyFolder")>>,
     <<Root, Dir("tinas"), Dir("f"), MetaXml("r", "tina")>>,
     <<Root, Dir("tinas"), Dir("f"), Dir("r"), MetaXml("x", "tina")>>,
     <<Root, Dir("simons"), MetaXml("t", "simon")>>,
     <<Root, Dir("simons"), Dir("t"), File("f", "js")>>,
     <<Root, Dir("keanus"), MetaXml("a", "keanu")>>,
     <<Root, Dir("keanus"), File("a", "keanu")>>}

TreePaths == UNION {Prefixes(f) : f \in TreeFiles}

\* the full names looked for in a directory
FullNames == {<<"r">>, <<"t">>, <<"a">>}

\* the ignore sets a walk is given
IgnoreSets ==
    {Undefined} \cup
    {Some(S) : S \in {T \in SUBSET (files \cup Directories) : Cardinality(T) <= MaxIgnored}}

\* a container bound to a tree of at most MaxFiles files
InitTree ==
    /\ files \in {fs \in SUBSET TreeFiles : Cardinality(fs) <= MaxFiles}
    /\ reversed \in BOOLEAN
    /\ mixedOrder = <<"simons", "tinas">>
    /\ denied = {}
    /\ tree = NoTree
    /\ call = Undefined
    /\ outcome = NoOutcome
    /\ components = <<>>
    /\ added = <<>>
    /\ apiVersion = RegistryApiVersion
    /\ asked = NoAsk

\* the repository behind a container: at most MaxFiles files
InitGithub ==
    /\ files \in {fs \in SUBSET TreeFiles : Cardinality(fs) <= MaxFiles}
    /\ reversed = FALSE
    /\ mixedOrder = <<"simons", "tinas">>
    /\ denied = {}
    /\ tree = NoTree
    /\ call = Undefined
    /\ outcome = NoOutcome
    /\ components = <<>>
    /\ added = <<>>
    /\ apiVersion = RegistryApiVersion
    /\ asked = NoAsk

\* no operation has been called yet
Idle == asked = NoAsk /\ call = Undefined

\* the listing is fetched, and one operation is called
NextGithub ==
    \/ Idle /\ Fetch
    \/ \E path \in TreePaths : Idle /\ GithubExists(path)
    \/ \E path \in TreePaths : Idle /\ GithubIsDirectory(path)
    \/ \E fsPath \in TreePaths : Idle /\ GithubResolve(fsPath)

\* a container of a remote repository and a resolver bound to it
SpecGithub == InitGithub /\ [][NextGithub]_vars

\* paths of the tree are resolved, one call at a time
NextContent == (\E fsPath \in TreePaths : Resolve(fsPath)) \/ Return

\* a resolver bound to a tree of components with content directories
SpecContent == InitTree /\ [][NextContent]_vars

\* one operation is called on a container
NextTree ==
    \/ \E dir \in Directories, ignore \in IgnoreSets : Idle /\ Walk(dir, ignore)
    \/ \E dir \in Directories, fullName \in FullNames :
            Idle /\ FindMetadataXml(dir, fullName)
    \/ \E dir \in Directories, fullName \in FullNames : Idle /\ FindContent(dir, fullName)
    \/ \E contentPath \in files \cup Directories, typeId \in {"simonpegg", "tinafey"} :
            Idle /\ FindXmlFromContentPath(contentPath, typeId)

\* a tree container whose operations are called
SpecTree == InitTree /\ [][NextTree]_vars

NextSet == \E component \in AddUniverse : Add(component)

NextResolver == (\E fsPath \in AllPaths : Resolve(fsPath)) \/ Return

NextQuery ==
    \/ \E component \in QueryUniverse : Add(component)
    \/ \E component \in HasUniverse : Has(component)
    \/ Iterate
    \/ \E forMember \in ForMemberUniverse : GetSourceComponents(forMember)
    \/ Deploy
    \/ Retrieve
    \/ GetObject

NextManifest ==
    \/ \E component \in ManifestUniverse : Add(component)
    \/ GetObject
    \/ ParseObject
    \/ \E manifestObj \in ManifestObjects, options \in ManifestOptions :
            FromManifestFile(manifestObj, options)

NextFilter ==
    \/ \E component \in ReceiverUniverse : AddBefore(component)
    \/ \E resolved \in ResolvedLists, filter \in Filters :
            ResolveSourceComponents(resolved, filter)
    \/ \E component \in FilterHasUniverse : Has(component)
    \/ Size
    \/ Iterate
    \/ GetObject
    \/ GetPackageXml
    \/ \E forMember \in FilterForMemberUniverse : GetSourceComponents(forMember)

SpecSet == InitSet /\ [][NextSet]_vars

SpecResolver == InitResolver /\ [][NextResolver]_vars

\* a set that is added to and read
SpecQuery == InitSet /\ [][NextQuery]_vars

\* a set that is written as a manifest and built from one
SpecManifest == InitSet /\ [][NextManifest]_vars

\* a set that paths are resolved into
SpecFilter == InitSet /\ [][NextFilter]_vars

-----------------------------------------------------------------------------
(* Properties of ComponentSet, under SpecSet *)

AddedSet == {added[i] : i \in 1..Len(added)}

PairOf(component) == <<component.type, component.fullName>>

AddedPairs == {PairOf(c) : c \in AddedSet}

AddedSources == {c \in AddedSet : c.src}

C10_OneEntryPerTuple ==
    \A k \in 1..Len(components) :
        Len(components[k].value) =
            Cardinality({<<c.xml, c.content>> :
                            c \in {x \in AddedSources : simpleKey(x) = components[k].key}})

-----------------------------------------------------------------------------
(* Properties of the resolver, under SpecResolver.  They are stated on the
   outcome of the last call and on the log of what the call did. *)

Called == call # Undefined

LogIndices == 1..Len(outcome.log)

\* the registered mixed-content directory names that are parts of a path
MixedNamesIn(p) == {d \in DOMAIN MixedContent : \E k \in 1..Len(p) : p[k] = Dir(d)}

OrderIndex(d) == CHOOSE i \in 1..Len(mixedOrder) : mixedOrder[i] = d

\* the one of them that comes first in the registry's key order
FirstMixedName(p) ==
    CHOOSE d \in MixedNamesIn(p) : \A e \in MixedNamesIn(p) : OrderIndex(d) <= OrderIndex(e)

\* d names a folder-scoped type and is the immediate parent of the path
IsFolderComponentOf(p, d) ==
    RegistryTypes[MixedContent[d]].inFolder /\ Len(p) >= 2 /\ p[Len(p) - 1] = Dir(d)

\* strategy 1: the candidate of the mixed-content match, "" if none
MixedCandidate(p) ==
    IF MixedNamesIn(p) = {} THEN ""
    ELSE IF IsFolderComponentOf(p, FirstMixedName(p)) THEN ""
    ELSE MixedContent[FirstMixedName(p)]

\* strategies 2 and 3, in this order
LaterCandidate(p) ==
    IF SuffixAttempt(p) # "" THEN SuffixAttempt(p) ELSE ExtensionAttempt(p)

\* the type the three strategies give, the first match winning
ExpectedTypeId(p) == IF MixedCandidate(p) # "" THEN MixedCandidate(p) ELSE LaterCandidate(p)

\* x lies under directory d
Under(d, x) == Len(x) > Len(d) /\ IsPrefix(d, x)

\* C2: a call with a path that does not exist raises path-not-found for
\* that path, returns no component, and has done nothing but ask the tree
\* whether the path exists.
C2_MissingPathRaises ==
    (Called /\ ~exists(call[1])) =>
        /\ outcome.status = "error_path_not_found"
        /\ outcome.errPath = call[1]
        /\ outcome.comps = <<>>
        /\ outcome.log = <<Event("exists", call[1])>>

\* a missing path in an existing directory was resolved
C2_MissingPathInExistingDirectory ==
    /\ Called
    /\ ~exists(call[1])
    /\ exists(dirname(call[1]))
    /\ outcome.status = "error_path_not_found"

CommonLen(a, b) ==
    CHOOSE n \in 0..Min(Len(a), Len(b)) :
        /\ SubSeq(a, 1, n) = SubSeq(b, 1, n)
        /\ (n = Min(Len(a), Len(b)) \/ a[n + 1] # b[n + 1])

\* the place of a child name in the listing of its directory
PositionIn(d, name) == CHOOSE i \in 1..Len(readDir(d)) : readDir(d)[i] = name

\* file x comes before file y in the order of the walk: below their deepest
\* common directory, a file of that directory comes before anything in its
\* subdirectories, and otherwise the listing order of the directory decides
WalkBefore(x, y) ==
    LET k == CommonLen(dirname(x), dirname(y))
        d == SubSeq(x, 1, k)
    IN IF Len(x) = k + 1 /\ Len(y) > k + 1 THEN TRUE
       ELSE IF Len(x) > k + 1 /\ Len(y) = k + 1 THEN FALSE
       ELSE PositionIn(d, x[k + 1]) < PositionIn(d, y[k + 1])

\* C3: the components a call returns are in the order of the walk: those of
\* the descriptors directly in a directory, in listing order, before those
\* found in its subdirectories, and the subdirectories in listing order.
C3_FilesBeforeSubdirectories ==
    (Called /\ outcome.status = "ok") =>
        \A i, j \in 1..Len(outcome.comps) :
            i < j => WalkBefore(outcome.comps[i].xml[1], outcome.comps[j].xml[1])

\* a component of a directory was returned before one of a subdirectory that
\* the listing names before the descriptor
C3_FileBeforeEarlierListedSubdirectory ==
    /\ Called
    /\ outcome.status = "ok"
    /\ \E i, j \in 1..Len(outcome.comps) :
          LET x == outcome.comps[i].xml[1]
              y == outcome.comps[j].xml[1]
          IN /\ i < j
             /\ Under(dirname(x), dirname(y))
             /\ PositionIn(dirname(x), y[Len(x)]) < PositionIn(dirname(x), basename(x))

IsMixedContentType(typeId) == \E d \in DOMAIN MixedContent : MixedContent[d] = typeId

\* the directory that holds path is not the root directory of the type: its
\* name (the name of its parent, for a folder-scoped type) is not the
\* directory name of the type
ScannedOutsideTypeRoot(typeId, path) ==
    LET type == RegistryTypes[typeId]
        level == IF type.inFolder THEN dirname(dirname(path)) ELSE dirname(path)
    IN Len(level) = 0 \/ basename(level) # Dir(type.directoryName)

\* the k-th logged call pushed a mixed-content component outside the root
\* directory of its type
StoppingPush(k) ==
    /\ outcome.log[k].op = "push"
    /\ IsMixedContentType(ExpectedTypeId(outcome.log[k].path))
    /\ ScannedOutsideTypeRoot(ExpectedTypeId(outcome.log[k].path), outcome.log[k].path)

\* C4: once a mixed-content component is pushed while the scanned directory
\* is not the root directory of its type, the call touches nothing under
\* that directory any more (no file of it, no subdirectory of it), and the
\* component is among those returned.
C4_ScanStopsAfterMixedContent ==
    \A k \in LogIndices :
        StoppingPush(k) =>
            /\ \A later \in LogIndices :
                  later > k => ~Under(dirname(outcome.log[k].path), outcome.log[later].path)
            /\ outcome.status = "ok" =>
                  \E i \in 1..Len(outcome.comps) :
                      outcome.comps[i].xml = Some(outcome.log[k].path)

\* a scan stopped and left another descriptor under the directory unresolved
C4_StopLeftDescriptorUnresolved ==
    /\ outcome.status = "ok"
    /\ \E k \in LogIndices :
          /\ StoppingPush(k)
          /\ \E f \in files :
                /\ Under(dirname(outcome.log[k].path), f)
                /\ parseMetadataXml(f) # Undefined
                /\ \A e \in LogIndices : outcome.log[e].path # f

\* C5 as stated, for the two cases it names: resolving an existing path that
\* the ignore rules deny, a descriptor file or a directory, raises no error
\* and returns no component; for a directory, without listing a directory
\* or fetching a component.
C5_DeniedPathYieldsNothing ==
    (Called /\ exists(call[1]) /\ denies(call[1])
        /\ (isDirectory(call[1]) \/ parseMetadataXml(call[1]) # Undefined)) =>
        /\ outcome.status = "ok"
        /\ outcome.comps = <<>>
        /\ isDirectory(call[1]) =>
              \A k \in LogIndices : outcome.log[k].op \notin {"readDir", "fetchComponent"}

C7_FolderParentFallsThrough ==
    \A k \in LogIndices :
        (/\ outcome.log[k].op = "determineTypeId"
         /\ \E d \in MixedNamesIn(outcome.log[k].path) :
                IsFolderComponentOf(outcome.log[k].path, d)) =>
            outcome.log[k].value = LaterCandidate(outcome.log[k].path)

\* C7 as amended: when the mixed-content directory name that decides, the
\* first in the registry's key order that is a part of the path, is of a
\* folder-scoped type and is the name of the immediate parent, the inference
\* returns what the descriptor-suffix and extension strategies give.
C7_FirstMixedFolderParentFallsThrough ==
    \A k \in LogIndices :
        (/\ outcome.log[k].op = "determineTypeId"
         /\ MixedNamesIn(outcome.log[k].path) # {}
         /\ IsFolderComponentOf(outcome.log[k].path, FirstMixedName(outcome.log[k].path))) =>
            outcome.log[k].value = LaterCandidate(outcome.log[k].path)

\* a folder descriptor directly in the directory of a folder-scoped type was
\* inferred as the folder type
C7_FolderDescriptorIsFolderType ==
    \E k \in LogIndices :
        /\ outcome.log[k].op = "determineTypeId"
        /\ outcome.log[k].path = <<Root, Dir("tinas"), MetaXml("f", "tinafeyFolder")>>
        /\ outcome.log[k].value = "tinafeyfolder"

\* C8: when a call fetches a path that is not denied and for which no
\* strategy gives a type, the call raises could-not-infer-type for that
\* path and returns no component, whatever it had collected before.
C8_UninferableFileRaises ==
    \A k \in LogIndices :
        (/\ outcome.log[k].op = "fetchComponent"
         /\ ~denies(outcome.log[k].path)
         /\ ExpectedTypeId(outcome.log[k].path) = "") =>
            /\ outcome.status = "error_could_not_infer_type"
            /\ outcome.errPath = outcome.log[k].path
            /\ outcome.comps = <<>>

\* a directory walk had pushed a component and then raised the error
C8_WalkRaisedAfterPush ==
    /\ Called
    /\ isDirectory(call[1])
    /\ outcome.status = "error_could_not_infer_type"
    /\ \E k \in LogIndices : outcome.log[k].op = "push"

\* the call named an existing file whose descriptor suffix or extension is
\* the suffix of a registered type
KnownSuffixFile ==
    /\ Called
    /\ exists(call[1])
    /\ ~isDirectory(call[1])
    /\ LaterCandidate(call[1]) # ""

-----------------------------------------------------------------------------
(* Properties of reading a ComponentSet, under SpecQuery.  They are stated on
   the last operation asked of the set and on the history of what was added. *)

\* the type a component names: a type object, or a type name whatever its case
NamesType(component, typeId) ==
    IF IsTypeString(component)
    THEN trim(toLowerCase[component.type]) = toLowerCase[RegistryTypes[typeId].name[1]]
    ELSE component.type = typeId

\* two components have the same type and the same fullName
SameMember(c, d) ==
    /\ c.fullName = d.fullName
    /\ \E typeId \in TypeIds : NamesType(c, typeId) /\ NamesType(d, typeId)

\* the abstract (fullName, type) component of a component
AbstractOf(c) == Member(CHOOSE typeId \in TypeIds : NamesType(c, typeId), c.fullName)

\* what iteration is to yield for the k-th outer key
YieldOfKey(k) ==
    IF Len(components[k].value) = 0
    THEN <<AbstractOf(CHOOSE c \in AddedSet : simpleKey(c) = components[k].key)>>
    ELSE Values(components[k].value)

RECURSIVE YieldFrom(_)
YieldFrom(k) == IF k > Len(components) THEN <<>> ELSE YieldOfKey(k) \o YieldFrom(k + 1)

\* C11 as stated: a full iteration yields, key by key in insertion order,
\* the source-backed components stored under the key if there are any, and
\* otherwise the one abstract (fullName, type) component that was added
\* under the key.
C11_IterationYieldsStoredOrAbstract ==
    asked.op = "iterator" => asked.value = YieldFrom(1)

\* C12: has(component) is true exactly when a component of the same type
\* and the same fullName was added before, abstract or source-backed and
\* whatever its paths; a type name matches a type whatever its case.
C12_HasIsMembershipOfTypeAndName ==
    asked.op = "has" =>
        (asked.value <=> \E c \in AddedSet : SameMember(c, asked.arg))

\* has was asked with an upper-case type name and a component of that type,
\* added with its type object, answered it
C12_UpperCaseNameFound ==
    /\ asked.op = "has"
    /\ IsTypeString(asked.arg)
    /\ asked.arg.type = "KEANUREEVES"
    /\ asked.value
    /\ \A c \in AddedSet : ~IsTypeString(c) /\ c.src

-----------------------------------------------------------------------------
(* Properties of resolving a path into a ComponentSet, under SpecFilter *)

Resolving == asked.op = "resolveSourceComponents"

\* the components the resolver returned, and the components the call added
ResolvedSet == {asked.arg.resolved[i] : i \in 1..Len(asked.arg.resolved)}

CallsSet == {asked.value.calls[i] : i \in 1..Len(asked.value.calls)}

Filtered == asked.arg.filter # Undefined

\* the members of the filter
FilterSetMembers ==
    {asked.arg.filter[1].items[i] : i \in 1..Len(asked.arg.filter[1].items)}

\* the filter has the exact component
ExactlyInFilter(c) == \E m \in FilterSetMembers : SameMember(m, c)

\* the filter has a wildcard member of a type
WildcardInFilter(typeId) == Wildcard(typeId) \in FilterSetMembers

\* the three conditions of the filter
Eligible(c) ==
    \/ ExactlyInFilter(c)
    \/ WildcardInFilter(c.type)
    \/ HasParent(c) /\ (ExactlyInFilter(c.parent) \/ WildcardInFilter(c.parent.type))

\* C13: with a filter, a resolved component is added if and only if the
\* filter has the component, or a wildcard of its type, or its parent, or a
\* wildcard of its parent's type; with no filter every resolved component is
\* added.
C13_AddedIffEligible ==
    Resolving =>
        \A c \in ResolvedSet : c \in CallsSet <=> (~Filtered \/ Eligible(c))

\* a resolved child was added only because the filter has a wildcard of its
\* parent's type
C13_ChildAddedByParentWildcard ==
    /\ Resolving
    /\ Filtered
    /\ FilterSetMembers = {Wildcard("reginaking")}
    /\ \E c \in ResolvedSet : HasParent(c) /\ c \in CallsSet /\ has(components, c)

\* C14 as stated: when a resolved component meets none of the three
\* conditions, those of its children that meet one of the three conditions,
\* and only those, are added.
C14_ChildrenAddedIffEligible ==
    (Resolving /\ Filtered) =>
        \A c \in ResolvedSet :
            ~Eligible(c) =>
                \A i \in 1..Len(getChildren(c)) :
                    getChildren(c)[i] \in CallsSet <=> Eligible(getChildren(c)[i])

\* the components stored in a set
RECURSIVE StoredFrom(_, _)
StoredFrom(map, k) ==
    IF k > Len(map) THEN <<>> ELSE Values(map[k].value) \o StoredFrom(map, k + 1)

Stored(map) == {StoredFrom(map, 1)[i] : i \in 1..Len(StoredFrom(map, 1))}

\* C15: the set the call returns holds exactly the components the call
\* added to the receiver: each of them is in the receiver after the call, and
\* no resolved component that the filter left out is returned.
C15_ReturnsWhatWasAdded ==
    Resolving =>
        /\ Stored(asked.value.sourceComponents) = CallsSet
        /\ Len(asked.value.sourceComponents) =
               Cardinality({simpleKey(c) : c \in CallsSet})
        /\ \A c \in Stored(asked.value.sourceComponents) :
               has(components, c) /\ c \in Stored(components)
        /\ \A c \in ResolvedSet :
               (Filtered /\ ~Eligible(c)) => c \notin Stored(asked.value.sourceComponents)

\* of two resolved components the filter left one out, and the other one
\* was added and returned
C15_OneLeftOutOneReturned ==
    /\ Resolving
    /\ Filtered
    /\ \E c, d \in ResolvedSet :
          /\ c \notin CallsSet
          /\ d \in CallsSet
          /\ d \in Stored(asked.value.sourceComponents)
          /\ ~has(asked.value.sourceComponents, c)

-----------------------------------------------------------------------------
(* Properties of manifests, under SpecManifest *)

\* the components added, each at the first add of its (type, fullName) pair
RECURSIVE FirstAddsFrom(_)
FirstAddsFrom(i) ==
    IF i > Len(added) THEN <<>>
    ELSE (IF \E j \in 1..(i - 1) : PairOf(added[j]) = PairOf(added[i])
          THEN <<>> ELSE <<added[i]>>) \o FirstAddsFrom(i + 1)

FirstAdds == FirstAddsFrom(1)

\* the type name a component is listed under: that of its type, and that of
\* the content type for a folder type
BlockNameOf(c) ==
    RegistryTypes[IF c.type \in DOMAIN FolderContentType
                  THEN FolderContentType[c.type] ELSE c.type].name

\* the type names, each at its first insertion
RECURSIVE BlockNamesFrom(_)
BlockNamesFrom(i) ==
    IF i > Len(FirstAdds) THEN <<>>
    ELSE (IF \E j \in 1..(i - 1) : BlockNameOf(FirstAdds[j]) = BlockNameOf(FirstAdds[i])
          THEN <<>> ELSE <<BlockNameOf(FirstAdds[i])>>) \o BlockNamesFrom(i + 1)

\* the full names added under a type name, in insertion order
MembersNamed(name) ==
    LET Named(c) == BlockNameOf(c) = name
        listed == SelectSeq(FirstAdds, Named)
    IN [i \in 1..Len(listed) |-> listed[i].fullName]

\* C16 as stated: getObject gives one block per type name, a folder type
\* standing under its content type, the blocks in the order of the first
\* insertion of their type and the members of a block, the full names added,
\* in the insertion order of their keys, and the apiVersion of the set.
C16_BlocksInInsertionOrder ==
    asked.op = "getObject" =>
        asked.value =
            [types |-> Array([k \in 1..Len(BlockNamesFrom(1)) |->
                                [members |-> Array(MembersNamed(BlockNamesFrom(1)[k])),
                                 name |-> BlockNamesFrom(1)[k]]]),
             version |-> apiVersion]

\* the (type name, member set) groupings of a manifest object that
\* getObject gave
Groupings(obj) ==
    {<<obj.types.items[k].name,
       {obj.types.items[k].members.items[i] :
            i \in 1..Len(obj.types.items[k].members.items)}>> :
        k \in 1..Len(obj.types.items)}

RoundTrip == asked.op = "fromManifestFile" /\ asked.arg.origin = "getObject"

\* C17: the set built from the components parsed out of the manifest object
\* of a set X gives, by getObject, the (type name, member set) groupings of
\* the manifest object of X.
C17_ManifestRoundTrip ==
    RoundTrip => Groupings(getObject(components, apiVersion)) = Groupings(asked.arg.manifestObj)

\* the manifest object of a set with a component in a folder and the folder
\* itself was parsed back: both are in the new set, two members of one block
C17_FolderRoundTrip ==
    /\ RoundTrip
    /\ has(asked.before, Member("tinafey", NameFR))
    /\ has(asked.before, Member("tinafeyfolder", NameF))
    /\ has(components, Member("tinafey", NameFR))
    /\ has(components, Member("tinafeyfolder", NameF))
    /\ Groupings(asked.arg.manifestObj) = {<<<<"TinaFey">>, {NameFR, NameF}>>}

FromFile == asked.op = "fromManifestFile" /\ asked.arg.origin = "file"

\* the type blocks of the manifest read that have a member '*'
WildcardBlocks ==
    {b \in {ArrayOf(asked.arg.manifestObj.types)[k] :
                k \in 1..Len(ArrayOf(asked.arg.manifestObj.types))} :
        \E i \in 1..Len(ArrayOf(b.members)) : ArrayOf(b.members)[i] = <<WILDCARD>>}

\* the components the resolver returned for the paths resolved
ResolvedForManifest ==
    IF asked.arg.options.resolve = Undefined THEN {}
    ELSE UNION {{asked.arg.options.resolve[1][k][i] :
                    i \in 1..Len(asked.arg.options.resolve[1][k])} :
                k \in 1..Len(asked.arg.options.resolve[1])}

\* C18 as stated: a member '*' of a type block is a member of the set built,
\* unless paths are resolved and literalWildcard is not set; then it is not a
\* member of the set, it is in the filter set, and every resolved component
\* of the block's type is added.
C18_WildcardMemberOrFilter ==
    FromFile =>
        \A b \in WildcardBlocks :
            LET typeId == getTypeByName(b.name[1]).id
            IN IF asked.arg.options.resolve # Undefined /\ ~asked.arg.options.literalWildcard
               THEN /\ ~has(components, Wildcard(typeId))
                    /\ has(asked.value.filterSet, Wildcard(typeId))
                    /\ \A c \in ResolvedForManifest : c.type = typeId => has(components, c)
               ELSE has(components, Wildcard(typeId))

-----------------------------------------------------------------------------
(* Properties of the source components of a set, under SpecQuery *)

\* every source component stored in the set, in the order of the keys
AllStored == StoredFrom(components, 1)

\* the children named as the member, of the stored components of the
\* parent type, in the order the parents are stored
RECURSIVE ChildrenNamedFrom(_, _, _)
ChildrenNamedFrom(parentType, fullName, i) ==
    IF i > Len(AllStored) THEN <<>>
    ELSE (IF AllStored[i].type = parentType
          THEN LET Named(child) == child.fullName = fullName
               IN SelectSeq(getChildren(AllStored[i]), Named)
          ELSE <<>>) \o ChildrenNamedFrom(parentType, fullName, i + 1)

\* the source components stored under the type and fullName of the member
StoredAs(member) ==
    LET Same(c) == SameMember(c, member) IN SelectSeq(AllStored, Same)

\* C19: for a member whose type has a parent type, getSourceComponents
\* yields first the children of that fullName of the source components
\* stored for the parent, then the source components stored under the
\* member's own key; for any other member only the latter; and with no
\* argument every source component of the set and no abstract one.
C19_SourceComponentsOfMember ==
    asked.op = "getSourceComponents" =>
        IF asked.arg = Undefined
        THEN /\ asked.value = AllStored
             /\ \A i \in 1..Len(asked.value) : asked.value[i].src
        ELSE asked.value =
                (IF asked.arg[1].type \in DOMAIN ParentTypes
                 THEN ChildrenNamedFrom(ParentTypes[asked.arg[1].type],
                                        asked.arg[1].fullName, 1)
                 ELSE <<>>) \o StoredAs(asked.arg[1])

\* a child was asked for and came twice: through its stored parent, and as
\* the source component stored under its own key
C19_ChildThroughParentAndOwnKey ==
    /\ asked.op = "getSourceComponents"
    /\ asked.arg = Some(Member("x", NameC1))
    /\ Len(asked.value) = 2
    /\ ReginaP \in Stored(components)
    /\ getChildren(ReginaP)[1] \in Stored(components)
    /\ asked.value = <<getChildren(ReginaP)[1], getChildren(ReginaP)[1]>>

\* C20: deploy fails with no-source-to-deploy exactly when the set holds no
\* source-backed component, whatever its size, and retrieve fails with
\* no-components-to-retrieve exactly when the size is 0; neither changes
\* the set.
C20_DeployAndRetrieveErrors ==
    /\ asked.op = "deploy" =>
          /\ asked.value = IF \E c \in AddedSet : c.src
                           THEN "MetadataApiDeploy" ELSE "error_no_source_to_deploy"
          /\ components = asked.before
    /\ asked.op = "retrieve" =>
          /\ asked.value = IF size(components) = 0
                           THEN "error_no_components_to_retrieve" ELSE "MetadataApiRetrieve"
          /\ (size(components) = 0 <=> added = <<>>)
          /\ components = asked.before

\* deploy failed on a set of abstract members only, of size 2
C20_DeployFailedOnAbstractMembers ==
    /\ asked.op = "deploy"
    /\ asked.value = "error_no_source_to_deploy"
    /\ size(components) = 2
    /\ retrieve(components) = "MetadataApiRetrieve"

-----------------------------------------------------------------------------
(* Properties of the tree container, under SpecTree *)

\* the place of the first segment of a path that names a type's directory
TypeDirectoryAt(path, typeId) ==
    CHOOSE i \in 1..Len(path) :
        /\ path[i] = Dir(RegistryTypes[typeId].directoryName)
        /\ \A j \in 1..(i - 1) : path[j] # path[i]

\* levels below the type's directory at which the root content of a
\* component sits: 1, and 2 for a type kept in folders
RootLevel(typeId) == IF RegistryTypes[typeId].inFolder THEN 2 ELSE 1

\* the content path holds the type's directory and reaches the root content
BelowTypeDirectory(path, typeId) ==
    /\ \E i \in 1..Len(path) : path[i] = Dir(RegistryTypes[typeId].directoryName)
    /\ Len(path) >= TypeDirectoryAt(path, typeId) + RootLevel(typeId)

RootContentOf(path, typeId) ==
    SubSeq(path, 1, TypeDirectoryAt(path, typeId) + RootLevel(typeId))

\* the descriptors of a content path: the descriptor files next to it that
\* carry its base name
DescriptorsOf(content) ==
    {f \in files : /\ dirname(f) = dirname(content)
                   /\ basename(f).meta
                   /\ basename(f).suffix # ""
                   /\ basename(f).base = basename(content).base}

\* C21: findXmlFromContentPath trims the content path to the root content
\* of the component (one level below the type's directory, two for a type
\* kept in folders) and returns the descriptor of that root content: not
\* the descriptor of another file, and a descriptor whenever the root
\* content has one.
C21_ReturnsDescriptorOfRootContent ==
    (asked.op = "findXmlFromContentPath"
        /\ BelowTypeDirectory(asked.arg.contentPath, asked.arg.type)) =>
        LET own == DescriptorsOf(RootContentOf(asked.arg.contentPath, asked.arg.type))
        IN /\ asked.value # Undefined => asked.value[1] \in own
           /\ own # {} => asked.value # Undefined

\* the nondirectory paths below a directory
FilesBelow(dir) == {f \in files : Under(dir, f)}

\* path x comes before path y in a depth-first walk in listing order: the
\* listing of their deepest common directory names the branch of x first
DepthFirstBefore(x, y) ==
    LET k == CommonLen(x, y)
        d == SubSeq(x, 1, k)
    IN PositionIn(d, x[k + 1]) < PositionIn(d, y[k + 1])

\* the result of a walk is the given set of paths, each once, depth first
WalkYields(S) ==
    /\ {asked.value[i] : i \in 1..Len(asked.value)} = S
    /\ Len(asked.value) = Cardinality(S)
    /\ \A i, j \in 1..Len(asked.value) :
          i < j => DepthFirstBefore(asked.value[i], asked.value[j])

\* a path is in the ignore set, or below a directory that is
IgnoredOrBelowIgnored(ignore, p) ==
    ignore # Undefined /\ \E q \in ignore[1] : q = p \/ Under(q, p)

\* C22 as stated: walk returns every file below dir once, depth first in
\* listing order, no directory, and no path that is in the ignore set or
\* below a directory of the ignore set.
C22_WalkSkipsBelowIgnoredDirectories ==
    asked.op = "walk" =>
        WalkYields({f \in FilesBelow(asked.arg.dir) :
                        ~IgnoredOrBelowIgnored(asked.arg.ignore, f)})

\* C22: walk returns every file below dir that is not itself in the ignore
\* set, each once, depth first in listing order, and no directory; a
\* directory of the ignore set is walked like any other.
C22_WalkSkipsIgnoredFiles ==
    asked.op = "walk" =>
        WalkYields({f \in FilesBelow(asked.arg.dir) :
                        asked.arg.ignore = Undefined \/ f \notin asked.arg.ignore[1]})

\* a walk left out an ignored file and returned another file
C22_IgnoredFileLeftOut ==
    /\ asked.op = "walk"
    /\ asked.arg.ignore # Undefined
    /\ \E f \in asked.arg.ignore[1] : f \in FilesBelow(asked.arg.dir)
    /\ asked.value # <<>>

\* a walk returned a file below a directory of the ignore set
C22_FileBelowIgnoredDirectoryReturned ==
    /\ asked.op = "walk"
    /\ asked.arg.ignore # Undefined
    /\ \E q \in asked.arg.ignore[1], i \in 1..Len(asked.value) :
          isDirectory(q) /\ Under(q, asked.value[i])

\* a file name is that of a metadata descriptor
IsDescriptorName(name) == name.meta /\ name.suffix # ""

\* the text of a file name begins with the full name
BeginsWith(name, fullName) == IsPrefix(fullName, NameStr(name))

\* the first child of dir, in listing order, that begins with the full name
\* and is a descriptor (or is not one); undefined when there is none
FirstChild(dir, fullName, descriptor) ==
    LET names == readDir(dir)
        hits == {i \in 1..Len(names) :
                    /\ BeginsWith(names[i], fullName)
                    /\ IsDescriptorName(names[i]) = descriptor}
    IN IF hits = {} THEN Undefined
       ELSE Some(Append(dir, names[CHOOSE i \in hits : \A j \in hits : i <= j]))

\* C23: findMetadataXml returns the first child of dir, in listing order,
\* whose name begins with fullName and is a metadata descriptor, and
\* findContent the first whose name begins with fullName and is not one;
\* each returns undefined when there is none, and for the same arguments
\* the two never return the same path.
C23_FirstChildBeginningWithName ==
    /\ asked.op = "findMetadataXml" =>
          /\ asked.value = FirstChild(asked.arg.dir, asked.arg.fullName, TRUE)
          /\ asked.value # Undefined =>
                asked.value # findContent(asked.arg.dir, asked.arg.fullName)
    /\ asked.op = "findContent" =>
          /\ asked.value = FirstChild(asked.arg.dir, asked.arg.fullName, FALSE)
          /\ asked.value # Undefined =>
                asked.value # findMetadataXml(asked.arg.dir, asked.arg.fullName)

\* the content of a name was found next to a descriptor of the same name
C23_ContentFoundNextToDescriptor ==
    /\ asked.op = "findContent"
    /\ asked.value # Undefined
    /\ findMetadataXml(asked.arg.dir, asked.arg.fullName) # Undefined

-----------------------------------------------------------------------------
(* Properties of GithubFileContainer, under SpecGithub *)

\* the paths of the fetched listing
Fetched == UNION {tree[k] : k \in DOMAIN tree}

\* the directories of the fetched listing: its tree entries
FetchedTrees == Fetched \cap DOMAIN tree

\* C30: exists gives false, and throws nothing, for a path that is not in
\* the fetched listing, whether or not its parent directory is, and
\* resolving such a path raises path-not-found; isDirectory throws for a
\* path that is not in the listing, and for a path of the listing is true
\* exactly when the path is a tree entry.
C30_ExistsIsFalseForAbsentPaths ==
    /\ (asked.op = "github.exists" /\ asked.arg \notin Fetched) =>
          asked.value = Returns(FALSE)
    /\ (call # Undefined /\ call[1] \notin Fetched) =>
          outcome.status = "error_path_not_found"
    /\ asked.op = "github.isDirectory" =>
          IF asked.arg \in Fetched
          THEN asked.value = Returns(asked.arg \in FetchedTrees)
          ELSE asked.value.status # "ok"

-----------------------------------------------------------------------------
(* Properties of the resolver on content directories, under SpecContent *)

\* the content root of the decomposed component a path lies in: the
\* directory one level below the directory of the type
DecomposedRoot(path) == SubSeq(path, 1, FindIndex(path, Dir("reginas")) + 1)

\* the path is a directory of the tree strictly inside the content root of
\* a decomposed component
InsideDecomposed(path) ==
    /\ isDirectory(path)
    /\ FindIndex(path, Dir("reginas")) > 0
    /\ Len(path) > FindIndex(path, Dir("reginas")) + 1

\* the full component of a content root
FullComponent(root) ==
    Component("reginaking", basename(root).base,
              IF \E f \in files : dirname(f) = root /\ basename(f) = MetaXml("a", "regina")
              THEN Some(Append(root, MetaXml("a", "regina"))) ELSE Undefined,
              Some(root))

ReturnedSet == {outcome.comps[i] : i \in 1..Len(outcome.comps)}

MixedTypeOf(path) ==
    MixedContent[CHOOSE d \in DOMAIN MixedContent : \E i \in 1..Len(path) : path[i] = Dir(d)]

\* the path is a directory of the tree inside the subtree of a mixed-content
\* type, and is not the directory of the type itself
InsideMixedContent(path) ==
    /\ isDirectory(path)
    /\ \E d \in DOMAIN MixedContent :
          /\ \E i \in 1..(Len(path) - 1) : path[i] = Dir(d)
          /\ basename(path) # Dir(d)

\* the call listed a directory: it walked
Walked == \E i \in LogIndices : outcome.log[i].op \in {"walk", "readDir"}

\* the component owns the directory: its descriptor is the descriptor of
\* the root content the directory is in
Owns(component, path) ==
    /\ BelowTypeDirectory(path, MixedTypeOf(path))
    /\ component.xml # Undefined
    /\ component.xml[1] \in DescriptorsOf(RootContentOf(path, MixedTypeOf(path)))

\* C25: a call on a directory inside the subtree of a mixed-content type,
\* other than the directory of the type, does not walk the directory: it
\* resolves the one descriptor findXmlFromContentPath gives and returns at
\* most one component, the one that owns the directory.
C25_DirectoryOfContentGivesItsOwner ==
    (Called /\ InsideMixedContent(call[1])) =>
        /\ ~Walked
        /\ Len(outcome.comps) <= 1
        /\ \A c \in ReturnedSet : Owns(c, call[1])

\* the directory is the directory of a mixed-content type inferred for it
IsTypeDirectory(path) ==
    /\ isDirectory(path)
    /\ determineTypeId(path) # ""
    /\ MixedType(RegistryTypes[determineTypeId(path)].directoryName) = determineTypeId(path)
    /\ basename(path) = Dir(RegistryTypes[determineTypeId(path)].directoryName)

\* C26: a call on a directory named as the directory of the mixed-content
\* type inferred for it is not redirected to a descriptor: it walks the
\* directory, whether or not the type is kept in folders and whatever files
\* sit next to the directory.
C26_TypeDirectoryIsWalked ==
    (Called /\ IsTypeDirectory(call[1])) =>
        /\ \E i \in LogIndices : outcome.log[i] = Event("walk", call[1])
        /\ ~\E i \in LogIndices : outcome.log[i].op = "fetchComponent"
                                     /\ dirname(outcome.log[i].path) = dirname(call[1])

-----------------------------------------------------------------------------
(* Frame, naming and growth properties of ComponentSet *)

ReadOps == {"has", "size", "iterator", "getObject", "getPackageXml", "getSourceComponents"}

AddedNames == {c.fullName : c \in AddedSet}

\* C28: every fullName that full iteration reports for an abstract member,
\* and every member name of getObject, is the fullName of a component that
\* was added, and every fullName added is among the member names of
\* getObject: no name is cut or changed, a name that holds '#' included.
\* Under SpecQuery.
C28_ReportedNamesWereAdded ==
    /\ asked.op = "iterator" =>
          \A i \in 1..Len(asked.value) :
              ~asked.value[i].src => asked.value[i].fullName \in AddedNames
    /\ asked.op = "getObject" =>
          UNION {g[2] : g \in Groupings(asked.value)} = AddedNames

\* C29: a step of a set never takes from it: a component has was true of
\* stays so, a stored source-backed component stays stored, and the size
\* does not decrease.  Under SpecSet.
C29_SetOnlyGrows ==
    [][/\ \A c \in AddedSet : has(components, c) => has(components', c)
       /\ Stored(components) \subseteq Stored(components')
       /\ size(components') >= size(components)]_vars

=============================================================================
